---------------------------- MODULE Spec2Model ----------------------------
(***************************************************************************)
(* A model of merge_files.py: robust_read_file, combine_and_save_files and *)
(* load_data.  Strings are sequences of one-character strings so that      *)
(* strip(), lower(), endswith(), splitext() and os.path.join() are         *)
(* computed the way Python computes them.                                  *)
(***************************************************************************)
EXTENDS Integers, Sequences, FiniteSets, TLC

(***************************************************************************)
(* Bounds of the model.                                                    *)
(***************************************************************************)
MaxLines == 3
MaxDirSize == 3
MaxRounds == 2
MaxCands == 2

(***************************************************************************)
(* Python string primitives.                                               *)
(***************************************************************************)
UpperChars == <<"A","B","C","D","E","F","G","H","I","J","K","L","M",
                "N","O","P","Q","R","S","T","U","V","W","X","Y","Z">>

LowerChars == <<"a","b","c","d","e","f","g","h","i","j","k","l","m",
                "n","o","p","q","r","s","t","u","v","w","x","y","z">>

DigitChars == <<"0","1","2","3","4","5","6","7","8","9">>

\* The characters the model uses, in code-point order.
AsciiOrder == <<" ", "$", ".", "/">> \o DigitChars \o UpperChars \o <<"_">> \o LowerChars
                  \o <<"~">>

IndexOf(seq, c) == CHOOSE i \in 1..Len(seq) : seq[i] = c

CharCode(c) == IndexOf(AsciiOrder, c)

LowerChar(c) ==
    IF \E i \in 1..Len(UpperChars) : UpperChars[i] = c
    THEN LowerChars[IndexOf(UpperChars, c)]
    ELSE c

\* str.lower()
Lower(s) == [i \in 1..Len(s) |-> LowerChar(s[i])]

\* str.strip(): leading and trailing white space removed
Strip(s) ==
    LET nonblank == {i \in 1..Len(s) : s[i] # " "}
    IN  IF nonblank = {} THEN <<>>
        ELSE LET lo == CHOOSE i \in nonblank : \A j \in nonblank : i <= j
                 hi == CHOOSE i \in nonblank : \A j \in nonblank : j <= i
             IN  SubSeq(s, lo, hi)

\* str.startswith / str.endswith
StartsWith(s, p) == Len(p) <= Len(s) /\ SubSeq(s, 1, Len(p)) = p

EndsWith(s, p) == Len(p) <= Len(s) /\ SubSeq(s, Len(s) - Len(p) + 1, Len(s)) = p

\* str.rfind(c): the last position of c, 0 when absent (Python's -1)
RFind(s, c) ==
    LET hits == {i \in 1..Len(s) : s[i] = c}
    IN  IF hits = {} THEN 0 ELSE CHOOSE i \in hits : \A j \in hits : j <= i

\* str.isdigit() on the model's characters
IsDigit(s) == Len(s) > 0 /\ \A i \in 1..Len(s) : \E d \in 1..Len(DigitChars) : DigitChars[d] = s[i]

\* int(s) for a string of decimal digits
RECURSIVE ToInt(_)
ToInt(s) ==
    IF s = <<>> THEN 0
    ELSE 10 * ToInt(SubSeq(s, 1, Len(s) - 1)) + (IndexOf(DigitChars, s[Len(s)]) - 1)

\* Python's ordering of strings: lexicographic by code point
RECURSIVE StrLess(_, _)
StrLess(a, b) ==
    IF a = <<>> THEN b # <<>>
    ELSE IF b = <<>> THEN FALSE
    ELSE IF a[1] # b[1] THEN CharCode(a[1]) < CharCode(b[1])
    ELSE StrLess(Tail(a), Tail(b))

\* sorted(S) for a set of strings
RECURSIVE Sorted(_)
Sorted(S) ==
    IF S = {} THEN <<>>
    ELSE LET m == CHOOSE x \in S : \A y \in S \ {x} : StrLess(x, y)
         IN  <<m>> \o Sorted(S \ {m})

(***************************************************************************)
(* os.path (posix).                                                        *)
(***************************************************************************)
\* os.path.join(a, b)
PathJoin(a, b) ==
    IF StartsWith(b, <<"/">>) THEN b
    ELSE IF a = <<>> \/ EndsWith(a, <<"/">>) THEN a \o b
    ELSE a \o <<"/">> \o b

\* os.path.dirname(p): what precedes the last separator
Dirname(p) ==
    LET i == RFind(p, "/")
    IN  IF i = 0 THEN <<>> ELSE IF i = 1 THEN <<"/">> ELSE SubSeq(p, 1, i - 1)

\* os.path.basename(p)
Basename(p) == SubSeq(p, RFind(p, "/") + 1, Len(p))

\* os.path.splitext(p)[1]: from the last dot of the last component, unless
\* that component has only dots before it
SplitExt(p) ==
    LET sep == RFind(p, "/")
        dot == RFind(p, ".")
    IN  IF dot > sep /\ \E k \in (sep + 1)..(dot - 1) : p[k] # "."
        THEN SubSeq(p, dot, Len(p))
        ELSE <<>>


(***************************************************************************)
(* State.  fs, kind and dirs are the file system; the ld_ group are        *)
(* load_data's locals, the c_ group combine_and_save_files' locals and the *)
(* r_ group one call of robust_read_file on the text of a file.            *)
(***************************************************************************)
VARIABLES
    fs,              \* path -> table, for every regular file
    kind,            \* path -> how the file reads: "unknown" until first opened
    dirs,            \* the paths that are directories
    pc,              \* position of the running function
    data_dir,        \* load_data's / combine_and_save_files' data_dir
    files,           \* load_data: the supported files collected, in listing order
    ext_choice,      \* load_data: the selected extension
    candidates,      \* the candidate file names handed to the merge
    pickIdx,         \* load_data: index of the file the per-file prompt is about
    rounds,          \* times the prompt loop went back to the type selection
    result,          \* load_data's outcome
    lastPrompt,      \* the prompt answered last
    lastInput,       \* the answer given to it, stripped and lower-cased
    lastRead,        \* load_data: the read it attempted last
    caller,          \* who called combine_and_save_files
    c_ext,           \* combine_and_save_files' ext_choice (lower-cased)
    typed,           \* the answer to the output-name prompt, stripped
    out_name,
    out_path,
    asked,           \* whether the overwrite prompt was shown
    per_file_errors, \* names of the files whose read raised
    read_success,
    dfs,             \* the tables read so far
    idx,             \* index of the candidate the loop is at
    lastCall,        \* the last call of robust_read_file: file, delimiter, sniff outcome
    opened,          \* the candidate files opened for reading by this call
    wrote,           \* the paths written by this call
    ret,             \* combine_and_save_files' return value
    fs0,             \* the file system when combine_and_save_files was entered
    kind0,           \* how each file read when combine_and_save_files was entered
    r_lines,         \* robust_read_file: the lines of the file
    r_kind,          \* robust_read_file: how the file reads
    r_delim,         \* robust_read_file: the delimiter argument
    r_out            \* robust_read_file: what the call produced

fsVars == <<fs, kind, dirs>>

ldVars == <<pc, data_dir, files, ext_choice, candidates, pickIdx, rounds, result,
            lastPrompt, lastInput, lastRead, caller>>

cVars == <<c_ext, typed, out_name, out_path, asked, per_file_errors, read_success, dfs,
           idx, lastCall, opened, wrote, ret, fs0, kind0>>

rVars == <<r_lines, r_kind, r_delim, r_out>>

vars == <<fsVars, ldVars, cVars, rVars>>

\* None where a string is expected: Python tests these values for truth, and
\* the empty string is as false as None.
NoStr == <<>>

\* How a file reads: "ok" parses; "bad" opens but no reader parses it;
\* "noopen" cannot be opened (open() raises).
FileKinds == {"ok", "bad", "noopen"}

Delims == {<<",">>, <<";">>}

(***************************************************************************)
(* robust_read_file on the text of a file.                                 *)
(***************************************************************************)
\* The fields of one line split at delimiter d; a blank line has no field
\* (csv.reader yields []).
RECURSIVE SplitFields(_, _)
SplitFields(line, d) ==
    LET hits == {i \in 1..Len(line) : <<line[i]>> = d}
    IN  IF hits = {} THEN <<line>>
        ELSE LET i == CHOOSE h \in hits : \A j \in hits : h <= j
             IN  <<SubSeq(line, 1, i - 1)>> \o SplitFields(SubSeq(line, i + 1, Len(line)), d)

SplitLine(line, d) == IF line = <<>> THEN <<>> ELSE SplitFields(line, d)

\* csv.reader(fh): the default dialect, whose delimiter is the comma
CsvReader(lines) == [i \in 1..Len(lines) |-> SplitLine(lines[i], <<",">>)]

SeqMax(lens) ==
    IF lens = {} THEN 0 ELSE CHOOSE m \in lens : \A n \in lens : n <= m

\* a row padded on the right with `fill` up to n fields
PadRow(r, n, fill) == r \o [i \in 1..(n - Len(r)) |-> fill]

\* f"col_{i+1}" for the i-th column (counted from 1 here)
ColName(i) == <<"c", "o", "l", "_", DigitChars[i + 1]>>

EmptyField == <<>>

\* the missing value pandas fills a short row with
NaN == <<"N", "a", "N">>

NormalizeRows_Truncating(rows) ==
    LET minlen == CHOOSE m \in {Len(rows[i]) : i \in 1..Len(rows)} :
                      \A i \in 1..Len(rows) : m <= Len(rows[i])
    IN  [columns |-> [i \in 1..minlen |-> ColName(i)],
         index   |-> 0,
         rows    |-> [i \in 1..Len(rows) |-> SubSeq(rows[i], 1, minlen)]]

\* lines 66-69: pad every row to the longest row's length
NormalizeRows(rows) ==
    LET maxlen == SeqMax({Len(rows[i]) : i \in 1..Len(rows)})
    IN  [columns |-> [i \in 1..maxlen |-> ColName(i)],
         index   |-> 0,
         rows    |-> [i \in 1..Len(rows) |-> PadRow(rows[i], maxlen, EmptyField)]]

EmptyFrame == [columns |-> <<>>, index |-> 0, rows |-> <<>>]

\* lines 56-69: the csv.reader fallback
FallbackRead(lines) ==
    LET rows == CsvReader(lines)
    IN  IF rows = <<>> THEN EmptyFrame ELSE NormalizeRows(rows)

\* pd.read_csv skips blank lines
NonBlank(lines) == SelectSeq(lines, LAMBDA l : l # <<>>)

\* pd.read_csv(engine="python", on_bad_lines="warn") at delimiter d: the
\* first line is the header; a first data row longer than the header makes
\* its leading fields the index; a row with more fields than that is
\* skipped with a warning; a shorter one is filled with NaN.
ReadCsvWarn(lines, d) ==
    LET rows     == [i \in 1..Len(NonBlank(lines)) |-> SplitLine(NonBlank(lines)[i], d)]
        header   == rows[1]
        data     == Tail(rows)
        implicit == IF data # <<>> /\ Len(data[1]) > Len(header)
                    THEN Len(data[1]) - Len(header) ELSE 0
        width    == Len(header) + implicit
        kept     == SelectSeq(data, LAMBDA r : Len(r) <= width)
    IN  [columns |-> header,
         index   |-> implicit,
         rows    |-> [i \in 1..Len(kept) |-> PadRow(kept[i], width, NaN)]]

\* The lines the model feeds to robust_read_file.
Lines == { <<>>,
           <<"x">>,
           <<"x", ",", "x">>,
           <<"x", ",", "x", ",", "x">>,
           <<"x", ",">>,
           <<"x", ";", "x">> }

RECURSIVE SeqsUpTo(_, _)
SeqsUpTo(S, n) ==
    IF n = 0 THEN {<<>>}
    ELSE LET shorter == SeqsUpTo(S, n - 1)
         IN  shorter \cup {Append(s, x) : s \in {t \in shorter : Len(t) = n - 1}, x \in S}

\* robust_read_file(fp, delimiter), lines 33-69.  pandasRaises: the first
\* attempt raised (always so for a file without a non-blank line, which has
\* no columns to parse); sniffed: the separator pandas infers under sep=None.
RobustReadFile(lines, fkind, delimiter, pandasRaises, sniffed) ==
    IF fkind = "ok" /\ ~pandasRaises /\ NonBlank(lines) # <<>>
    THEN LET sep == IF delimiter # NoStr THEN delimiter ELSE sniffed
         IN  [via |-> "pandas", sep |-> sep, df |-> ReadCsvWarn(lines, sep)]
    ELSE IF fkind = "noopen" \/ fkind = "bad"
    THEN [via |-> "RuntimeError", sep |-> NoStr, df |-> EmptyFrame]
    ELSE [via |-> "fallback", sep |-> <<",">>, df |-> FallbackRead(lines)]

RCall ==
    /\ r_out.via = "pending"
    /\ \E pandasRaises \in BOOLEAN, sniffed \in Delims :
         r_out' = RobustReadFile(r_lines, r_kind, r_delim, pandasRaises, sniffed)
    /\ UNCHANGED <<r_lines, r_kind, r_delim, fsVars, ldVars, cVars>>


(***************************************************************************)
(* The file system and the answers typed at the prompts.                   *)
(***************************************************************************)
DataDir == <<"d">>

A_csv == <<"a", ".", "c", "s", "v">>

B_CSV == <<"b", ".", "C", "S", "V">>

Merged_csv == <<"m", "e", "r", "g", "e", "d", ".", "c", "s", "v">>

C_txt == <<"c", ".", "t", "x", "t">>

X_xlsx == <<"x", ".", "x", "l", "s", "x">>

Y_xls == <<"y", ".", "x", "l", "s">>

Hidden_csv == <<".", "h", ".", "c", "s", "v">>

Lock_xlsx == <<"~", "$", "x", ".", "x", "l", "s", "x">>

J_json == <<"j", ".", "j", "s", "o", "n">>

P_parquet == <<"p", ".", "p", "a", "r", "q", "u", "e", "t">>

Notes == <<"n", "o", "t", "e", "s">>

Sub_csv == <<"s", "u", "b", ".", "c", "s", "v">>

\* The regular files a directory may hold, and the table each one holds: a
\* single row tagged with the file's position here.
FileNames == <<A_csv, B_CSV, Merged_csv, C_txt, X_xlsx, Y_xls, Hidden_csv,
               Lock_xlsx, J_json, P_parquet, Notes>>

\* The directory of the script, which load_data defaults to, and the script.
ScriptDir == <<"s">>

Script == <<"m", "e", "r", "g", "e", "_", "f", "i", "l", "e", "s", ".", "p", "y">>

\* A subdirectory a directory may hold.
SubdirNames == {Sub_csv}

TableOf(name) == <<IndexOf(FileNames, name)>>

\* answers to "Enter output filename"
OutNameInputs == { <<" ">>,
                   <<"m">>,
                   <<"M", ".", "C", "S", "V">>,
                   <<"/", "t", "/", "m">> }

\* answers to the yes/no prompts
YesNoInputs == { <<"y">>, <<" ", "Y", "E", "S">>, <<"n">>, <<"q">>, <<>> }

Exists(path) == path \in DOMAIN fs \/ path \in dirs

IsFile(path) == path \in DOMAIN fs

IsDir(path) == path \in dirs

\* os.listdir(dir)
ListDir(dir) == {Basename(p) : p \in {q \in (DOMAIN fs) \cup dirs : Dirname(q) = dir /\ q # dir}}

\* How opening and parsing `path` turns out: a path that is no regular file
\* cannot be opened; a file not opened before may read any way.
PossibleKinds(path) ==
    IF ~IsFile(path) THEN {"noopen"}
    ELSE IF kind[path] = "unknown" THEN FileKinds
    ELSE {kind[path]}

KindAfter(path, k) == IF IsFile(path) THEN [kind EXCEPT ![path] = k] ELSE kind

(***************************************************************************)
(* combine_and_save_files                                                  *)
(***************************************************************************)
Yes == {<<"y">>, <<"y", "e", "s">>}

Quit == {<<"q">>, <<"q", "u", "i", "t">>}

No == {<<"n">>, <<"n", "o">>}

Merged == <<"m", "e", "r", "g", "e", "d">>

CsvExts == {<<".", "c", "s", "v">>, <<".", "t", "x", "t">>}

\* lines 79-83: the output file name from the answer typed
OutName(raw, ext) ==
    LET answer == Strip(raw)
        named  == IF answer = <<>> THEN Merged \o ext ELSE answer
    IN  IF ~EndsWith(Lower(named), ext) THEN named \o ext ELSE named

\* line 84
OutPath(dir, name) == PathJoin(dir, name)

OverwriteConfirmed_UnlessNo(ans) == ans \notin No

\* line 87: the answers that let an existing file be overwritten
OverwriteConfirmed(ans) == ans \in Yes

\* lines 101-115: the delimiter sniffed from the first 8192 bytes.  A file
\* that cannot be opened leaves None; bytes that are not UTF-8 are decoded
\* as latin-1, which cannot fail; a sample the Sniffer rejects leaves None.
SniffOutcomes(k) ==
    IF k = "noopen"
    THEN {[sniff |-> "open_failed", decoded |-> "none", delimiter |-> NoStr]}
    ELSE {[sniff |-> "sniff_failed", decoded |-> enc, delimiter |-> NoStr] :
              enc \in {"utf-8", "latin1"}}
         \cup {[sniff |-> "sniffed", decoded |-> enc, delimiter |-> d] :
                  enc \in {"utf-8", "latin1"}, d \in Delims}

NoCall == [fname |-> NoStr, delimiter |-> NoStr, sniff |-> "none", decoded |-> "none"]

SniffEscapes_Uncaught(outcome) == outcome.sniff # "sniffed"

\* lines 102-115: whether an exception leaves the sniffing block.  Every
\* failure is caught inside it.
SniffEscapes(outcome) == FALSE

ReadRaises_OnlyUnopenable(k) == k = "noopen"

\* robust_read_file (lines 33-69) and pd.read_excel (line 140) raise for a
\* file that cannot be opened or cannot be parsed.
ReadRaises(k) == k # "ok"

\* show_problem_lines (line 13) opens the file again and raises when it
\* cannot be opened.
ShowProblemLinesRaises(k) == k = "noopen"

\* pd.concat(dfs, ignore_index=True)
RECURSIVE Concat(_)
Concat(tables) ==
    IF tables = <<>> THEN <<>> ELSE Head(tables) \o Concat(Tail(tables))

NoPath == [kind |-> "None", path |-> NoStr]

ThePath(p) == [kind |-> "path", path |-> p]

\* The return of combine_and_save_files, and in load_data lines 241-243:
\* no path sends the prompt loop back to the type selection.
Return(v) ==
    /\ ret' = v
    /\ IF caller = "load_data"
       THEN IF v.kind = "None"
            THEN pc' = "select" /\ rounds' = rounds + 1
            ELSE pc' = "load_merged" /\ rounds' = rounds
       ELSE pc' = "c_done" /\ rounds' = rounds

\* lines 78-85: lower-case the extension, ask for the output name, look
\* whether the output path exists; lines 91-93 when it does not
COutName ==
    /\ pc = "c_outname"
    /\ \E raw \in OutNameInputs :
         /\ typed' = Strip(raw)
         /\ out_name' = OutName(raw, c_ext)
         /\ out_path' = OutPath(data_dir, OutName(raw, c_ext))
         /\ lastPrompt' = "outname"
         /\ lastInput' = Strip(raw)
    /\ asked' = Exists(out_path')
    /\ pc' = IF Exists(out_path') THEN "c_overwrite" ELSE "c_read"
    /\ idx' = 1
    /\ UNCHANGED <<fsVars, rVars, data_dir, files, ext_choice, candidates, pickIdx,
                   rounds, result, lastRead, caller, c_ext, per_file_errors,
                   read_success, dfs, lastCall, opened, wrote, ret, fs0, kind0>>

\* lines 86-93: the overwrite prompt
COverwrite ==
    /\ pc = "c_overwrite"
    /\ \E raw \in YesNoInputs :
         /\ lastPrompt' = "overwrite"
         /\ lastInput' = Lower(Strip(raw))
         /\ IF OverwriteConfirmed(Lower(Strip(raw)))
            THEN pc' = "c_read" /\ UNCHANGED <<ret, rounds>>
            ELSE Return(NoPath)
    /\ UNCHANGED <<fsVars, rVars, data_dir, files, ext_choice, candidates, pickIdx,
                   result, lastRead, caller, c_ext, typed, out_name, out_path, asked,
                   per_file_errors, read_success, dfs, idx, lastCall, opened, wrote, fs0, kind0>>

\* lines 97-124 (CSV/TXT) and 137-146 (Excel): one turn of the loop over
\* the candidates
CReadFile ==
    /\ pc = "c_read"
    /\ idx <= Len(candidates)
    /\ LET fname == candidates[idx]
           fp    == PathJoin(data_dir, fname)
       IN  \E k \in PossibleKinds(fp) :
             /\ kind' = KindAfter(fp, k)
             /\ opened' = opened \cup {fp}
             /\ IF c_ext \in CsvExts
                THEN \E sn \in SniffOutcomes(k) :
                       IF SniffEscapes(sn)
                       THEN \* line 120
                            /\ per_file_errors' = Append(per_file_errors, fname)
                            /\ UNCHANGED <<dfs, read_success, lastCall>>
                            /\ IF ShowProblemLinesRaises(k)
                               THEN Return(NoPath) /\ idx' = idx
                               ELSE idx' = idx + 1 /\ UNCHANGED <<pc, ret, rounds>>
                       ELSE /\ lastCall' = [fname |-> fname, delimiter |-> sn.delimiter,
                                            sniff |-> sn.sniff, decoded |-> sn.decoded]
                            /\ IF ReadRaises(k)
                               THEN \* lines 120-124; an exception of
                                    \* show_problem_lines reaches line 163
                                    /\ per_file_errors' = Append(per_file_errors, fname)
                                    /\ UNCHANGED <<dfs, read_success>>
                                    /\ IF ShowProblemLinesRaises(k)
                                       THEN Return(NoPath) /\ idx' = idx
                                       ELSE idx' = idx + 1 /\ UNCHANGED <<pc, ret, rounds>>
                               ELSE /\ dfs' = Append(dfs, fs[fp])
                                    /\ read_success' = Append(read_success, fname)
                                    /\ idx' = idx + 1
                                    /\ UNCHANGED <<per_file_errors, pc, ret, rounds>>
                ELSE /\ idx' = idx + 1
                     /\ UNCHANGED <<lastCall, pc, ret, rounds>>
                     /\ IF ReadRaises(k)
                        THEN /\ per_file_errors' = Append(per_file_errors, fname)
                             /\ UNCHANGED <<dfs, read_success>>
                        ELSE /\ dfs' = Append(dfs, fs[fp])
                             /\ read_success' = Append(read_success, fname)
                             /\ UNCHANGED per_file_errors
    /\ UNCHANGED <<fs, dirs, rVars, data_dir, files, ext_choice, candidates, pickIdx,
                   result, lastPrompt, lastInput, lastRead, caller, c_ext, typed,
                   out_name, out_path, asked, wrote, fs0, kind0>>

\* lines 126-135 and 147-162, and the handler of line 163: after the loop,
\* whose own locals (the sample and the delimiter) are of no use any more
CFinish ==
    /\ pc = "c_read"
    /\ idx > Len(candidates)
    /\ IF dfs = <<>>
       THEN Return(NoPath) /\ UNCHANGED <<fs, kind, wrote>>
       ELSE \E writeRaises \in {IsDir(out_path), TRUE} :
              IF writeRaises
              THEN Return(NoPath) /\ UNCHANGED <<fs, kind, wrote>>
              ELSE /\ fs' = [p \in (DOMAIN fs) \cup {out_path} |->
                                IF p = out_path THEN Concat(dfs) ELSE fs[p]]
                   /\ kind' = [p \in (DOMAIN fs) \cup {out_path} |->
                                IF p = out_path THEN "unknown" ELSE kind[p]]
                   /\ wrote' = Append(wrote, out_path)
                   /\ Return(ThePath(out_path))
    /\ lastCall' = NoCall
    /\ UNCHANGED <<dirs, rVars, data_dir, files, ext_choice, candidates, pickIdx,
                   result, lastPrompt, lastInput, lastRead, caller, c_ext, typed,
                   out_name, out_path, asked, per_file_errors, read_success, dfs, idx,
                   opened, fs0, kind0>>

(***************************************************************************)
(* load_data                                                               *)
(***************************************************************************)
Allowed_WithJsonParquet ==
    {<<".", "c", "s", "v">>, <<".", "t", "x", "t">>, <<".", "x", "l", "s">>,
     <<".", "x", "l", "s", "x">>, <<".", "j", "s", "o", "n">>,
     <<".", "p", "a", "r", "q", "u", "e", "t">>}

\* line 173
Allowed ==
    {<<".", "c", "s", "v">>, <<".", "t", "x", "t">>, <<".", "x", "l", "s">>,
     <<".", "x", "l", "s", "x">>}

\* lines 187-189: whether a directory entry is collected
Collected(dir, fname) ==
    /\ IsFile(PathJoin(dir, fname))
    /\ Lower(SplitExt(fname)) \in Allowed
    /\ ~StartsWith(fname, <<"~", "$">>)
    /\ ~StartsWith(fname, <<".">>)

\* lines 184-190: the supported files, in the order of the sorted listing
SupportedFiles(dir) ==
    SelectSeq(Sorted(ListDir(dir)), LAMBDA fname : Collected(dir, fname))

\* lines 196-199, 203: the extensions in the order they first appear
RECURSIVE ExtKeys(_)
ExtKeys(fs_) ==
    IF fs_ = <<>> THEN <<>>
    ELSE LET before == ExtKeys(SubSeq(fs_, 1, Len(fs_) - 1))
             ext    == Lower(SplitExt(fs_[Len(fs_)]))
         IN  IF \E i \in 1..Len(before) : before[i] = ext THEN before
             ELSE Append(before, ext)

\* exts[ext]
Group(fs_, ext) == SelectSeq(fs_, LAMBDA f : Lower(SplitExt(f)) = ext)

NoExt == [valid |-> FALSE, ext |-> NoStr]

\* line 213: ext_keys[int(choice) - 1].  A Python index of -1 is the last
\* element; one of Len(keys) or more raises IndexError (line 219).
SelectByNumber(keys, k) ==
    LET i == k - 1
    IN  IF 0 <= i /\ i < Len(keys) THEN [valid |-> TRUE, ext |-> keys[i + 1]]
        ELSE IF i < 0 /\ -i <= Len(keys) THEN [valid |-> TRUE, ext |-> keys[Len(keys) + i + 1]]
        ELSE NoExt

\* lines 215-218
SelectByExtension(keys, choice) ==
    LET ext == IF StartsWith(choice, <<".">>) THEN choice ELSE <<".">> \o choice
    IN  IF \E i \in 1..Len(keys) : keys[i] = ext THEN [valid |-> TRUE, ext |-> ext]
        ELSE NoExt

\* lines 211-221
Select(keys, choice) ==
    IF IsDigit(choice) THEN SelectByNumber(keys, ToInt(choice))
    ELSE SelectByExtension(keys, choice)

\* answers to "Enter directory path to load data"
DirInputs == { <<" ", "d">>, <<>>, <<"n", "o">> }

\* answers to "Select file type by number or extension"
ChoiceInputs == { <<"1">>, <<"2">>, <<"0">>, <<"9">>,
                  <<".", "c", "s", "v">>, <<"X", "L", "S", "X">>,
                  <<"q">>, <<>> }

NoTable == [kind |-> "None", table |-> <<>>]

Table(t) == [kind |-> "table", table |-> t]

Raised == [kind |-> "raised", table |-> <<>>]

\* `continue`: back to the top of the while loop, line 201
Continue == pc' = "select" /\ rounds' = rounds + 1 /\ UNCHANGED result

ReturnFromLoad(v) == pc' = "ld_done" /\ result' = v /\ UNCHANGED rounds

\* lines 173-199: ask for the directory, collect and group the supported files
LdStart ==
    /\ pc = "ld_start"
    /\ \E raw \in DirInputs :
         /\ lastPrompt' = "dir"
         /\ lastInput' = Strip(raw)
         /\ data_dir' = IF Strip(raw) # <<>> THEN Strip(raw) ELSE ScriptDir
    /\ IF ~IsDir(data_dir')
       THEN ReturnFromLoad(NoTable) /\ files' = <<>>
       ELSE /\ files' = SupportedFiles(data_dir')
            /\ IF files' = <<>>
               THEN ReturnFromLoad(NoTable)
               ELSE pc' = "select" /\ UNCHANGED <<result, rounds>>
    /\ UNCHANGED <<fsVars, rVars, cVars, ext_choice, candidates, pickIdx, lastRead, caller>>

\* The locals of a call of combine_and_save_files that has returned are gone.
ForgetCombine ==
    /\ c_ext' = NoStr /\ typed' = NoStr /\ out_name' = NoStr /\ out_path' = NoStr
    /\ asked' = FALSE
    /\ per_file_errors' = <<>> /\ read_success' = <<>> /\ dfs' = <<>> /\ idx' = 0
    /\ lastCall' = NoCall /\ opened' = {} /\ wrote' = <<>>
    /\ ret' = [kind |-> "pending", path |-> NoStr]
    /\ fs0' = <<>> /\ kind0' = <<>>
    /\ caller' = "none"

\* lines 202-226: the file-type prompt
LdSelect ==
    /\ pc = "select"
    /\ rounds < MaxRounds
    /\ \E raw \in ChoiceInputs :
         LET choice == Lower(Strip(raw))
             sel    == Select(ExtKeys(files), choice)
         IN  /\ lastPrompt' = "select"
             /\ lastInput' = choice
             /\ IF choice \in Quit
                THEN ReturnFromLoad(NoTable) /\ UNCHANGED <<ext_choice, candidates>>
                ELSE IF ~sel.valid
                THEN Continue /\ UNCHANGED <<ext_choice, candidates>>
                ELSE /\ ext_choice' = sel.ext
                     /\ candidates' = Group(files, sel.ext)
                     /\ pc' = "confirm"
                     /\ UNCHANGED <<result, rounds>>
    /\ ForgetCombine
    /\ UNCHANGED <<fsVars, rVars, data_dir, files, pickIdx, lastRead>>

\* lines 229-237 and 310-311: "Are these the expected files to load?"
LdConfirm ==
    /\ pc = "confirm"
    /\ \E raw \in YesNoInputs :
         LET ans_all == Lower(Strip(raw))
         IN  /\ lastPrompt' = "confirm"
             /\ lastInput' = ans_all
             /\ IF ans_all \in Quit THEN ReturnFromLoad(NoTable)
                ELSE IF ans_all \in No THEN Continue
                ELSE IF ans_all \in Yes THEN pc' = "comb" /\ UNCHANGED <<result, rounds>>
                ELSE Continue
    /\ UNCHANGED <<fsVars, rVars, cVars, data_dir, files, ext_choice, candidates,
                   pickIdx, lastRead, caller>>

\* lines 239-241 and 267-269: "Combine all ... files into one file?"; a yes
\* enters combine_and_save_files, anything else starts the per-file prompts
LdComb ==
    /\ pc = "comb"
    /\ \E raw \in YesNoInputs :
         LET comb == Lower(Strip(raw))
         IN  /\ lastPrompt' = "comb"
             /\ lastInput' = comb
             /\ IF comb \in Yes
                THEN /\ pc' = "c_outname"
                     /\ caller' = "load_data"
                     /\ c_ext' = Lower(ext_choice)
                     /\ typed' = NoStr /\ out_name' = NoStr /\ out_path' = NoStr
                     /\ asked' = FALSE
                     /\ per_file_errors' = <<>> /\ read_success' = <<>> /\ dfs' = <<>>
                     /\ idx' = 0 /\ lastCall' = NoCall /\ opened' = {} /\ wrote' = <<>>
                     /\ ret' = [kind |-> "pending", path |-> NoStr]
                     /\ fs0' = fs /\ kind0' = kind
                     /\ UNCHANGED pickIdx
                ELSE /\ pc' = "pick"
                     /\ pickIdx' = 1
                     /\ UNCHANGED <<cVars, caller>>
    /\ UNCHANGED <<fsVars, rVars, data_dir, files, ext_choice, candidates, rounds,
                   result, lastRead>>

\* lines 270-282: "Load '<fname>'?" for the candidate at pickIdx
LdPick ==
    /\ pc = "pick"
    /\ pickIdx <= Len(candidates)
    /\ \E raw \in YesNoInputs :
         LET pick == Lower(Strip(raw))
         IN  /\ lastPrompt' = "pick"
             /\ lastInput' = pick
             /\ IF pick \in Quit THEN ReturnFromLoad(NoTable) /\ UNCHANGED pickIdx
                ELSE IF pick \in Yes
                THEN pc' = "load_one" /\ UNCHANGED <<pickIdx, result, rounds>>
                ELSE IF pickIdx < Len(candidates)
                THEN pickIdx' = pickIdx + 1 /\ UNCHANGED <<pc, result, rounds>>
                ELSE Continue /\ UNCHANGED pickIdx
    /\ UNCHANGED <<fsVars, rVars, cVars, data_dir, files, ext_choice, candidates,
                   lastRead, caller>>

\* lines 283-307: read the selected file.  The handler of line 304 calls
\* show_problem_lines, whose exception nothing catches.
LdLoadOne ==
    /\ pc = "load_one"
    /\ LET file_path == PathJoin(data_dir, candidates[pickIdx])
       IN  \E k \in PossibleKinds(file_path) :
             /\ kind' = KindAfter(file_path, k)
             /\ lastRead' = [path |-> file_path, ok |-> ~ReadRaises(k)]
             /\ IF ~ReadRaises(k) THEN ReturnFromLoad(Table(fs[file_path]))
                ELSE IF ShowProblemLinesRaises(k) THEN ReturnFromLoad(Raised)
                ELSE Continue
    /\ UNCHANGED <<fs, dirs, rVars, cVars, data_dir, files, ext_choice, candidates,
                   pickIdx, lastPrompt, lastInput, caller>>

\* lines 244-266: read the merged file back
LdLoadMerged ==
    /\ pc = "load_merged"
    /\ \E k \in PossibleKinds(ret.path) :
         /\ kind' = KindAfter(ret.path, k)
         /\ lastRead' = [path |-> ret.path, ok |-> ~ReadRaises(k)]
         /\ IF ~ReadRaises(k) THEN ReturnFromLoad(Table(fs[ret.path]))
            ELSE Continue
    /\ UNCHANGED <<fs, dirs, rVars, cVars, data_dir, files, ext_choice, candidates,
                   pickIdx, lastPrompt, lastInput, caller>>

IdleFs == fs = <<>> /\ kind = <<>> /\ dirs = {} /\ fs0 = <<>> /\ kind0 = <<>>

IdleLd ==
    /\ pc = "idle" /\ data_dir = NoStr /\ files = <<>> /\ ext_choice = NoStr
    /\ candidates = <<>> /\ pickIdx = 0 /\ rounds = 0
    /\ result = [kind |-> "pending", table |-> <<>>]
    /\ lastPrompt = "none" /\ lastInput = NoStr
    /\ lastRead = [path |-> NoStr, ok |-> FALSE]
    /\ caller = "none"

IdleC ==
    /\ c_ext = NoStr /\ typed = NoStr /\ out_name = NoStr /\ out_path = NoStr /\ asked = FALSE
    /\ per_file_errors = <<>> /\ read_success = <<>> /\ dfs = <<>> /\ idx = 0
    /\ lastCall = NoCall
    /\ opened = {} /\ wrote = <<>>
    /\ ret = [kind |-> "pending", path |-> NoStr]

IdleR ==
    /\ r_lines = <<>> /\ r_kind = "ok" /\ r_delim = NoStr
    /\ r_out = [via |-> "idle", sep |-> NoStr, df |-> EmptyFrame]

\* robust_read_file called on any file of at most MaxLines lines
InitRead ==
    /\ r_lines \in SeqsUpTo(Lines, MaxLines)
    /\ r_kind \in FileKinds
    /\ r_delim \in Delims \cup {NoStr}
    /\ r_out = [via |-> "pending", sep |-> NoStr, df |-> EmptyFrame]
    /\ IdleFs /\ IdleLd /\ IdleC

NextRead == RCall

SpecRead == InitRead /\ [][NextRead]_vars

\* The files of the directory combine_and_save_files is called on.
CombineFiles == {A_csv, B_CSV, Merged_csv, C_txt, X_xlsx, Y_xls}

\* combine_and_save_files called with any extension and any list of at most
\* MaxCands of the directory's files of that extension, each of which reads
\* one of the three ways.
InitCombine ==
    /\ \E ext \in {<<".", "C", "S", "V">>, <<".", "t", "x", "t">>,
                    <<".", "x", "l", "s", "x">>, <<".", "x", "l", "s">>} :
         /\ ext_choice = ext
         /\ c_ext = Lower(ext)
         /\ candidates \in SeqsUpTo({n \in CombineFiles : Lower(SplitExt(n)) = Lower(ext)},
                                    MaxCands)
    /\ data_dir = DataDir
    /\ fs = [p \in {PathJoin(DataDir, n) : n \in CombineFiles} |-> TableOf(Basename(p))]
    /\ kind \in [DOMAIN fs -> FileKinds]
    /\ \A p \in DOMAIN fs :
         (\A i \in 1..Len(candidates) : PathJoin(DataDir, candidates[i]) # p) => kind[p] = "ok"
    /\ dirs = {DataDir}
    /\ fs0 = fs /\ kind0 = kind
    /\ pc = "c_outname" /\ caller = "direct"
    /\ files = <<>> /\ pickIdx = 0 /\ rounds = 0
    /\ result = [kind |-> "pending", table |-> <<>>]
    /\ lastPrompt = "none" /\ lastInput = NoStr
    /\ lastRead = [path |-> NoStr, ok |-> FALSE]
    /\ typed = NoStr /\ out_name = NoStr /\ out_path = NoStr /\ asked = FALSE
    /\ per_file_errors = <<>> /\ read_success = <<>> /\ dfs = <<>> /\ idx = 0
    /\ lastCall = NoCall
    /\ opened = {} /\ wrote = <<>>
    /\ ret = [kind |-> "pending", path |-> NoStr]
    /\ IdleR

\* main(): load_data() on a directory holding at most MaxDirSize of the
\* files and subdirectories above, beside the script's own directory.
Init ==
    /\ \E names \in SUBSET ({FileNames[i] : i \in 1..Len(FileNames)} \cup SubdirNames) :
         /\ Cardinality(names) <= MaxDirSize
         /\ fs = [p \in {PathJoin(DataDir, n) : n \in names \ SubdirNames}
                         \cup {PathJoin(ScriptDir, Script)} |->
                     IF Dirname(p) = DataDir THEN TableOf(Basename(p)) ELSE <<0>>]
         /\ dirs = {DataDir, ScriptDir} \cup {PathJoin(DataDir, n) : n \in names \cap SubdirNames}
    /\ kind = [p \in DOMAIN fs |-> "unknown"]
    /\ fs0 = <<>> /\ kind0 = <<>>
    /\ pc = "ld_start" /\ caller = "none"
    /\ data_dir = NoStr /\ files = <<>> /\ ext_choice = NoStr /\ candidates = <<>>
    /\ pickIdx = 0 /\ rounds = 0
    /\ result = [kind |-> "pending", table |-> <<>>]
    /\ lastPrompt = "none" /\ lastInput = NoStr
    /\ lastRead = [path |-> NoStr, ok |-> FALSE]
    /\ IdleC /\ IdleR

Next ==
    \/ LdStart \/ LdSelect \/ LdConfirm \/ LdComb \/ LdPick \/ LdLoadOne \/ LdLoadMerged
    \/ COutName \/ COverwrite \/ CReadFile \/ CFinish

Spec == Init /\ [][Next]_vars

\* The discovery phase of load_data alone: the directory prompt, the
\* collecting and grouping of the files, and the file-type prompt.
NextDiscover == LdStart \/ LdSelect

SpecDiscover == Init /\ [][NextDiscover]_vars

NextCombine == COutName \/ COverwrite \/ CReadFile \/ CFinish

SpecCombine == InitCombine /\ [][NextCombine]_vars

(***************************************************************************)
(* C4                                                                      *)
(***************************************************************************)
RowLens(rows) == {Len(rows[i]) : i \in 1..Len(rows)}

\* `table` keeps every row of `rows`, in order, each with `width` fields:
\* the row's own, then empty strings
PaddedTo(table, rows, width) ==
    /\ Len(table) = Len(rows)
    /\ \A i \in 1..Len(rows) :
         /\ Len(table[i]) = width
         /\ SubSeq(table[i], 1, Len(rows[i])) = rows[i]
         /\ \A j \in (Len(rows[i]) + 1)..width : table[i][j] = EmptyField

\* The rows of the file as the reader that produced r_out saw them: pandas
\* skips blank lines and splits at its separator, csv.reader at the comma.
InputRows ==
    IF r_out.via = "pandas"
    THEN [i \in 1..Len(NonBlank(r_lines)) |-> SplitLine(NonBlank(r_lines)[i], r_out.sep)]
    ELSE CsvReader(r_lines)

\* C4 as stated: for a CSV/TXT file whose rows have differing numbers of
\* fields, robust_read_file returns a table that keeps every input row (the
\* first one as the column names when pandas read the file), all with as
\* many fields as the longest row, the shorter ones padded on the right with
\* empty strings.
C4_Original ==
    (r_out.via \in {"pandas", "fallback"} /\ Cardinality(RowLens(InputRows)) > 1)
        => PaddedTo(r_out.df.rows,
                    IF r_out.via = "pandas" THEN Tail(InputRows) ELSE InputRows,
                    SeqMax(RowLens(InputRows)))

\* C4 amended: that padding is what the csv.reader fallback does, which runs
\* only when the pandas attempt raised; then every row csv.reader yields is
\* kept, the table has as many columns as the longest row has fields, and
\* the shorter rows are padded on the right with empty strings.
C4_FallbackPads ==
    (r_out.via = "fallback" /\ r_lines # <<>>)
        => /\ PaddedTo(r_out.df.rows, CsvReader(r_lines), SeqMax(RowLens(CsvReader(r_lines))))
           /\ Len(r_out.df.columns) = SeqMax(RowLens(CsvReader(r_lines)))

C4_Witness ==
    /\ r_out.via = "fallback"
    /\ Cardinality(RowLens(CsvReader(r_lines))) > 2
    /\ r_delim = <<";">>


(***************************************************************************)
(* Claims about combine_and_save_files, under SpecCombine.                 *)
(***************************************************************************)
CandPath(i) == PathJoin(data_dir, candidates[i])

Readable(i) == kind0[CandPath(i)] = "ok"

\* the user declined to overwrite the existing output file
Declined == asked /\ lastPrompt = "overwrite" /\ ~(lastInput \in Yes)

\* the loop ended with tables in hand and yet no path came back: the write raised
WriteRaised == ret.kind = "None" /\ idx > Len(candidates) /\ dfs # <<>>

Returned == pc = "c_done"

\* the candidates at the positions in `keep`, in candidate order
RECURSIVE CandsWhere(_, _)
CandsWhere(i, keep) ==
    IF i > Len(candidates) THEN <<>>
    ELSE (IF i \in keep THEN <<candidates[i]>> ELSE <<>>) \o CandsWhere(i + 1, keep)

ReadableSet == {i \in 1..Len(candidates) : Readable(i)}

\* C1 as stated: when at least one candidate is readable (and the merge is
\* neither declined at the overwrite prompt nor stopped by a failing write)
\* every failing file is in per_file_errors, every readable one in
\* read_success, both in candidate order, so that the two are disjoint and
\* together as long as the candidates; the path is returned and the file at
\* it holds the tables of the readable files, concatenated in that order.
C1_Original ==
    (Returned /\ ~Declined /\ ~WriteRaised /\ ReadableSet # {})
        => /\ read_success = CandsWhere(1, ReadableSet)
           /\ per_file_errors = CandsWhere(1, (1..Len(candidates)) \ ReadableSet)
           /\ \A i \in 1..Len(read_success) : \A j \in 1..Len(per_file_errors) :
                read_success[i] # per_file_errors[j]
           /\ Len(read_success) + Len(per_file_errors) = Len(candidates)
           /\ ret = ThePath(out_path)
           /\ fs[out_path] = Concat([i \in 1..Len(read_success) |->
                                        fs0[PathJoin(data_dir, read_success[i])]])

\* C2: when no candidate can be read, combine_and_save_files returns None
\* and writes nothing: no file is created and none is changed.  This covers
\* the CSV/TXT and the Excel branch, and an empty list of candidates.
C2_NoneReadableAborts ==
    (Returned /\ ReadableSet = {})
        => ret = NoPath /\ wrote = <<>> /\ fs = fs0

C2_Witness ==
    /\ Returned /\ ReadableSet = {} /\ ~Declined
    /\ Len(candidates) >= 2
    /\ Len(per_file_errors) = Len(candidates)
    /\ c_ext \in CsvExts

\* C5 as stated: a returned path lies in data_dir itself, is
\* os.path.join(data_dir, name) for a name that ends, whatever its case, with
\* the extension: merged<ext> for a blank answer, the answer with the
\* extension appended when it lacks it, else the answer; and this call wrote
\* that file and no other.
C5_Original ==
    (Returned /\ ret.kind = "path")
        => /\ Dirname(ret.path) = data_dir
           /\ ret.path = PathJoin(data_dir, out_name)
           /\ EndsWith(Lower(out_name), c_ext)
           /\ out_name = (IF typed = <<>> THEN Merged \o c_ext
                          ELSE IF EndsWith(Lower(typed), c_ext) THEN typed
                          ELSE typed \o c_ext)
           /\ wrote = <<ret.path>>
           /\ \A p \in DOMAIN fs : p # ret.path => (p \in DOMAIN fs0 /\ fs[p] = fs0[p])

\* the candidates the loop has been through
Attempted == Len(read_success) + Len(per_file_errors)

C7_OverwriteOnlyOnYes ==
    /\ Declined => /\ Returned /\ ret = NoPath
                   /\ opened = {} /\ wrote = <<>> /\ fs = fs0
    /\ \A p \in DOMAIN fs0 :
         (fs[p] # fs0[p] \/ (p = out_path /\ wrote # <<>>))
            => (p = out_path /\ asked /\ lastPrompt = "overwrite" /\ lastInput \in Yes)

C7_Witness ==
    /\ Declined /\ Returned
    /\ lastInput = <<>>
    /\ Len(candidates) >= 1 /\ Readable(1)


(***************************************************************************)
(* Claims about load_data, under Spec and SpecDiscover.                    *)
(***************************************************************************)
ExtCsv == <<".", "c", "s", "v">>

ExtTxt == <<".", "t", "x", "t">>

ExtXls == <<".", "x", "l", "s">>

ExtXlsx == <<".", "x", "l", "s", "x">>

ExtJson == <<".", "j", "s", "o", "n">>

ExtParquet == <<".", "p", "a", "r", "q", "u", "e", "t">>

InSeq(x, seq) == \E i \in 1..Len(seq) : seq[i] = x

\* the directory has just been listed
Discovered == lastPrompt = "dir" /\ IsDir(data_dir)

\* C3 as stated: every regular file of the directory whose extension is one
\* of .csv, .txt, .xls, .xlsx, .json, .parquet is collected, grouped under
\* its extension and offered as a file type.
C3_Original ==
    Discovered =>
        \A n \in ListDir(data_dir) :
            (/\ IsFile(PathJoin(data_dir, n))
             /\ Lower(SplitExt(n)) \in {ExtCsv, ExtTxt, ExtXls, ExtXlsx, ExtJson, ExtParquet})
                => /\ InSeq(n, files)
                   /\ InSeq(Lower(SplitExt(n)), ExtKeys(files))
                   /\ InSeq(n, Group(files, Lower(SplitExt(n))))

\* C3 amended: the extensions supported are .csv, .txt, .xls and .xlsx, in
\* any case.  A regular file with one of them whose name starts neither
\* with "." nor with "~$" is collected, grouped under its lower-cased
\* extension and offered as a file type, and choosing that type lists it
\* among the candidates; no other entry of the directory is collected, a
\* .json or .parquet file in particular.
C3_FourExtensions ==
    /\ Discovered =>
         \A n \in ListDir(data_dir) :
            LET ext == Lower(SplitExt(n))
                supported == /\ IsFile(PathJoin(data_dir, n))
                             /\ ext \in {ExtCsv, ExtTxt, ExtXls, ExtXlsx}
                             /\ n[1] # "."
                             /\ ~(Len(n) >= 2 /\ n[1] = "~" /\ n[2] = "$")
            IN  /\ supported <=> InSeq(n, files)
                /\ supported => InSeq(ext, ExtKeys(files)) /\ InSeq(n, Group(files, ext))
                /\ ext \in {ExtJson, ExtParquet} => ~InSeq(n, files)
    /\ (lastPrompt = "select" /\ pc = "confirm") =>
         /\ ext_choice \in {ExtCsv, ExtTxt, ExtXls, ExtXlsx}
         /\ candidates # <<>>
         /\ \A i \in 1..Len(files) :
              Lower(SplitExt(files[i])) = ext_choice <=> InSeq(files[i], candidates)

C3_Witness ==
    /\ lastPrompt = "select" /\ pc = "confirm"
    /\ ext_choice = ExtCsv
    /\ candidates = <<A_csv, B_CSV>>
    /\ J_json \in ListDir(data_dir)

\* C8 as stated: load_data ends only by returning; it returns a table only
\* having just read it from the merged file or from the selected file, and
\* it returns None only when the directory is missing, when no supported
\* file is found, or on q or quit at the type, the confirmation or the
\* per-file prompt.  Everything else goes back to the type prompt.
C8_Original ==
    pc = "ld_done" =>
        \/ /\ result.kind = "table"
           /\ lastRead.ok
           /\ result.table = fs[lastRead.path]
           /\ \/ lastRead.path = ret.path /\ ret.kind = "path"
              \/ /\ pickIdx \in 1..Len(candidates)
                 /\ lastRead.path = PathJoin(data_dir, candidates[pickIdx])
        \/ /\ result.kind = "None"
           /\ \/ ~IsDir(data_dir)
              \/ files = <<>>
              \/ lastPrompt \in {"select", "confirm", "pick"} /\ lastInput \in Quit

\* C9 as stated: at the type prompt, with the extensions listed as 1..N, the
\* number k selects the k-th extension when 1 <= k <= N, and any other
\* number, 0 included, selects nothing: the prompt is shown again.
C9_Original ==
    (lastPrompt = "select" /\ IsDigit(lastInput)) =>
        LET k == ToInt(lastInput)
            keys == ExtKeys(files)
        IN  IF 1 <= k /\ k <= Len(keys)
            THEN pc = "confirm" /\ ext_choice = keys[k] /\ candidates = Group(files, keys[k])
            ELSE pc = "select"

\* C10 as stated: the file a merge started from load_data writes is none of
\* the candidate files that merge reads.
C10_Original ==
    caller = "load_data" =>
        \A j \in 1..Len(wrote) : \A i \in 1..Len(candidates) : wrote[j] # CandPath(i)

=============================================================================
